---- MODULE Spec2Model ----
(***************************************************************************)
(* Model of mcp_server_bigquery/server.py: the BigQueryDatabase helper,    *)
(* the module-level backend handle _db, the three FastMCP tools, the       *)
(* status endpoint, the SSE endpoint and the start-up code.                *)
(*                                                                         *)
(* Text is a sequence of one-character strings and opaque tokens, so that  *)
(* str.split, str.join and f-strings are computed, not assumed.            *)
(***************************************************************************)
EXTENDS Naturals, Sequences, FiniteSets

VARIABLES
    phase,        \* position of the process: "start", "db_ready", "serving", "crashed"
    entry,        \* how the process was started: "none", "main" (main()), "app" (app served without main())
    _db,          \* the module global _db (NoneDb models Python None)
    constructions,\* number of BigQueryDatabase objects constructed so far
    sess,         \* per SSE connection: "none", "open", "closed"
    owner,        \* per request id: the session it was accepted on (0: id not used yet)
    readStream,   \* per session: the accepted tool calls not yet handed to a tool
    inflight,     \* the tool calls whose handler waits for the backend
    hstate,       \* per request id: "none", "queued", "in_backend", "returned", "raised", "dropped"
    running,      \* request id whose handler holds the event loop, 0 when the loop is free
    writeStream,  \* per session: request ids whose Result (the tool's text, or the
                  \* error Result made of an exception) awaits the SSE writer
    delivered,    \* per session: request ids whose Result was written to the client
    last,         \* the tool call that ended last: its request, what it returned or raised,
                  \* the backend calls it issued and the backend error it met
    lastStatus    \* body of the last GET /mcp response (<<>> before the first)

vars == <<phase, entry, _db, constructions, sess, owner, readStream, inflight,
          hstate, running, writeStream, delivered, last, lastStatus>>

(***************************************************************************)
(* Bounds of the model.                                                    *)
(***************************************************************************)
MaxSessions == 2
MaxReqs == 2
MaxDatasets == 2

Sessions == 1..MaxSessions
ReqIds == 1..MaxReqs

(***************************************************************************)
(* Python values.                                                          *)
(***************************************************************************)
\* Python None / unset, for a string-valued environment variable or argument.
Unset == <<"<None>">>

\* _db: Optional[BigQueryDatabase] = None
NoneDb == [inst |-> 0, datasets_filter |-> <<>>]

\* A function call's outcome: a returned value or a raised exception.
Ret(v, calls) == [raised |-> FALSE, type |-> "", val |-> v, calls |-> calls]
Raise(t, msg, calls) == [raised |-> TRUE, type |-> t, val |-> msg, calls |-> calls]

\* str.split(sep) for a one-character separator.
RECURSIVE Split(_, _)
Split(s, sep) ==
    IF \A i \in 1..Len(s) : s[i] # sep
    THEN <<s>>
    ELSE LET i == CHOOSE k \in 1..Len(s) :
                      s[k] = sep /\ \A j \in 1..(k - 1) : s[j] # sep
         IN  <<SubSeq(s, 1, i - 1)>> \o Split(SubSeq(s, i + 1, Len(s)), sep)

\* sep.join(parts)
RECURSIVE Join(_, _)
Join(parts, sep) ==
    IF parts = <<>> THEN <<>>
    ELSE IF Len(parts) = 1 THEN parts[1]
    ELSE parts[1] \o <<sep>> \o Join(Tail(parts), sep)


\* Python truthiness of an optional string or list: None and the empty value are falsy.
Truthy(x) == x # Unset /\ x # <<>>

(***************************************************************************)
(* The outcomes the external services can produce.                         *)
(***************************************************************************)
\* Dataset ids the backend may report, in its listing order.
DsPool == << <<"a">>, <<"b">>, <<"c">>, <<"d">> >>

\* Errors raised by the BigQuery client library.
BackendErrors == {"BadRequest", "Forbidden"}

\* Row lists a query may return; "<date>" is a value json.dumps cannot encode.
RowSets == { << <<"{x:1}">> >>, << <<"{d:", "<date>", "}">> >> }

\* client.query(...).result(): err = "" means the job succeeded with rows.
QueryOutcomes ==
    [err : {""}, rows : RowSets] \cup [err : BackendErrors, rows : {<<>>}]

\* client.list_datasets() and the client.list_tables(d) calls of one listing:
\* dsErr # "" means list_datasets raised; failAt = k > 0 means the k-th
\* client.list_tables call raised err.
ListOutcomes ==
    [dsErr : {"", "Forbidden"}, n : 0..MaxDatasets, failAt : 0..MaxDatasets,
     err : {"BadRequest"}]

\* One backend call, as the stub backend would count it.
Call(op, target) == [op |-> op, target |-> target]

(***************************************************************************)
(* class BigQueryDatabase                                                  *)
(***************************************************************************)
\* BigQueryDatabase.__init__: keyOutcome is what loading key_file does,
\* clientOutcome what bigquery.Client(...) does; inst names the new object
\* (its client included).
BigQueryDatabase_init(project, location, key_file, datasets_filter, keyOutcome, clientOutcome, inst) ==
    IF ~Truthy(project)
    THEN Raise("ValueError", <<"Project is required">>, <<>>)
    ELSE IF ~Truthy(location)
    THEN Raise("ValueError", <<"Location is required">>, <<>>)
    ELSE IF Truthy(key_file) /\ keyOutcome # "ok"
    THEN Raise("ValueError", <<"Invalid key file: ", keyOutcome>>, <<>>)
    ELSE IF clientOutcome # "ok"
    THEN Raise(clientOutcome, <<clientOutcome>>, <<>>)
    ELSE Ret([inst |-> inst, datasets_filter |-> datasets_filter], <<>>)

\* BigQueryDatabase.execute_query made to retry a failed query once.
BigQueryDatabase_execute_query_Retry(self, query, params, o) ==
    IF o.err # ""
    THEN Raise(o.err, <<o.err>>, <<Call("query", query), Call("query", query)>>)
    ELSE Ret(o.rows, <<Call("query", query)>>)

\* BigQueryDatabase.execute_query: one client.query call; an error is logged
\* and re-raised.
BigQueryDatabase_execute_query(self, query, params, o) ==
    IF o.err # ""
    THEN Raise(o.err, <<o.err>>, <<Call("query", query)>>)
    ELSE Ret(o.rows, <<Call("query", query)>>)

\* The loop of BigQueryDatabase.list_tables over datasets[i..]: one
\* client.list_tables call per dataset, stopping at the first that raises.
RECURSIVE ListLoop(_, _, _, _, _)
ListLoop(datasets, i, o, tables, calls) ==
    IF i > Len(datasets) THEN Ret(tables, calls)
    ELSE LET d == datasets[i]
             c == calls \o <<Call("list_tables", d)>>
         IN  IF o.failAt = i
             THEN Raise(o.err, <<o.err>>, c)
             ELSE ListLoop(datasets, i + 1, o,
                           tables \o <<d \o <<".">> \o <<"t">>>>, c)

\* BigQueryDatabase.list_tables
BigQueryDatabase_list_tables(self, o) ==
    IF self.datasets_filter # <<>>
    THEN ListLoop(self.datasets_filter, 1, o, <<>>, <<>>)
    ELSE IF o.dsErr # ""
    THEN Raise(o.dsErr, <<o.dsErr>>, <<Call("list_datasets", <<>>)>>)
    ELSE ListLoop(SubSeq(DsPool, 1, o.n), 1, o, <<>>,
                  <<Call("list_datasets", <<>>)>>)

\* BigQueryDatabase.describe_table
BigQueryDatabase_describe_table(self, table_name, o) ==
    LET parts == Split(table_name, ".")
    IN  IF Len(parts) # 2
        THEN Raise("ValueError", <<"Invalid table name: ">> \o table_name, <<>>)
        ELSE BigQueryDatabase_execute_query(
                 self,
                 <<"SELECT ddl FROM ">> \o parts[1] \o <<".INFORMATION_SCHEMA.TABLES">>,
                 parts[2], o)

(***************************************************************************)
(* The MCP tools                                                           *)
(***************************************************************************)
\* get_db(): the value it returns, or the RuntimeError it raises.
get_db(db) ==
    IF db = NoneDb
    THEN Raise("RuntimeError", <<"BigQueryDatabase not initialized">>, <<>>)
    ELSE Ret(db, <<>>)

\* get_db() made to construct the database on first use.
get_db_global_Lazy(db) ==
    IF db = NoneDb THEN [inst |-> 1, datasets_filter |-> <<>>] ELSE db

\* What get_db() leaves in the global _db: it only reads it.
get_db_global(db) == db

\* json.dumps(value, indent=2) of a list of items.
json_dumps(items) ==
    IF \E i \in 1..Len(items) : \E j \in 1..Len(items[i]) : items[i][j] = "<date>"
    THEN Raise("TypeError", <<"Object of type date is not JSON serializable">>, <<>>)
    ELSE Ret(<<"[">> \o Join(items, ",") \o <<"]">>, <<>>)

\* The tools' try block around a database call r:
\*   try: return json.dumps(<r>, indent=2)
\*   except Exception as e: return f"Error: {e}"
TryDumps(r) ==
    IF r.raised
    THEN Ret(<<"Error: ">> \o r.val, r.calls)
    ELSE LET j == json_dumps(r.val)
         IN  IF j.raised
             THEN Ret(<<"Error: ">> \o j.val, r.calls)
             ELSE Ret(j.val, r.calls)

\* async def execute_query(query)
execute_query(db, query, o) ==
    LET g == get_db(db)
    IN  IF g.raised THEN g
        ELSE TryDumps(BigQueryDatabase_execute_query(g.val, query, <<>>, o))

\* async def list_tables()
list_tables(db, o) ==
    LET g == get_db(db)
    IN  IF g.raised THEN g
        ELSE TryDumps(BigQueryDatabase_list_tables(g.val, o))

\* async def describe_table(table_name)
describe_table(db, table_name, o) ==
    LET g == get_db(db)
    IN  IF g.raised THEN g
        ELSE TryDumps(BigQueryDatabase_describe_table(g.val, table_name, o))

\* The registered tools and the arguments posted to them.
Tools == {"execute_query", "list_tables", "describe_table"}
Queries == { <<"SELECT 1 AS x">> }
TableNames == { <<"a">>, <<"a", ".", "b">>, <<"a", ".", "b", ".", "c">> }
Requests(r, s) ==
    [id : {r}, tool : {"execute_query"}, arg : Queries, session : {s}]
    \cup [id : {r}, tool : {"list_tables"}, arg : {<<>>}, session : {s}]
    \cup [id : {r}, tool : {"describe_table"}, arg : TableNames, session : {s}]

Outcomes(tool) == IF tool = "list_tables" THEN ListOutcomes ELSE QueryOutcomes

\* One call of the tool a request names.
CallTool(db, req, o) ==
    IF req.tool = "execute_query" THEN execute_query(db, req.arg, o)
    ELSE IF req.tool = "list_tables" THEN list_tables(db, o)
    ELSE describe_table(db, req.arg, o)

\* Whether the call gets as far as a backend call (no outcome changes that).
ReachesBackend(db, req) ==
    \E o \in Outcomes(req.tool) : CallTool(db, req, o).calls # <<>>

\* execute_query made to await its database call (run off the event loop).
HoldsLoopDuringBackend_Awaited(tool) == tool \in Tools \ {"execute_query"}

\* The tools are coroutines that call the database synchronously: while the
\* backend call is pending the coroutine does not give up the event loop.
HoldsLoopDuringBackend(tool) == tool \in Tools


(***************************************************************************)
(* Start-up                                                                *)
(***************************************************************************)
\* The environment and the command line the process may be started with.
Envs == [project : {Unset, <<>>, <<"p">>}, location : {Unset, <<"US">>},
         key_file : {Unset, <<"k.json">>},
         datasets : {Unset, <<>>, <<"a", ",", "b">>}]
Args == [project : {Unset, <<"q">>}, location : {Unset, <<"EU">>},
         key_file : {Unset, <<"k.json">>},
         dataset : {Unset, << <<"a">>, <<"b">> >>}]
KeyOutcomes == {"ok", "FileNotFoundError"}
ClientOutcomes == {"ok", "DefaultCredentialsError"}

\* main(): the arguments given overwrite the environment variables.
main_set_env(env, args) ==
    [project  |-> IF Truthy(args.project) THEN args.project ELSE env.project,
     location |-> IF Truthy(args.location) THEN args.location ELSE env.location,
     key_file |-> IF Truthy(args.key_file) THEN args.key_file ELSE env.key_file,
     datasets |-> IF Truthy(args.dataset) THEN Join(args.dataset, ",")
                  ELSE env.datasets]

\* init_db_from_env(): the BigQueryDatabase it would assign to _db, or the
\* exception that leaves it before the assignment.
init_db_from_env(env, keyOutcome, clientOutcome, inst) ==
    BigQueryDatabase_init(
        env.project, env.location, env.key_file,
        IF Truthy(env.datasets) THEN Split(env.datasets, ",") ELSE <<>>,
        keyOutcome, clientOutcome, inst)

\* No tool call has ended yet.
NoLast == [id |-> 0, tool |-> "", arg |-> <<>>, raised |-> FALSE, type |-> "",
           text |-> <<>>, calls |-> <<>>, backendErr |-> ""]

Init ==
    /\ phase = "start"
    /\ entry = "none"
    /\ _db = NoneDb
    /\ constructions = 0
    /\ sess = [s \in Sessions |-> "none"]
    /\ owner = [r \in ReqIds |-> 0]
    /\ readStream = [s \in Sessions |-> <<>>]
    /\ inflight = {}
    /\ hstate = [r \in ReqIds |-> "none"]
    /\ running = 0
    /\ writeStream = [s \in Sessions |-> <<>>]
    /\ delivered = [s \in Sessions |-> <<>>]
    /\ last = NoLast
    /\ lastStatus = <<>>

serverVars == <<sess, owner, readStream, inflight, hstate, running,
                writeStream, delivered, last, lastStatus>>

\* main() up to and including init_db_from_env(): an exception ends the process.
main_init ==
    /\ phase = "start"
    /\ \E env \in Envs, args \in Args, k \in KeyOutcomes, c \in ClientOutcomes :
         LET r == init_db_from_env(main_set_env(env, args), k, c, constructions + 1)
         IN  IF r.raised
             THEN /\ phase' = "crashed"
                  /\ UNCHANGED <<_db, constructions>>
             ELSE /\ phase' = "db_ready"
                  /\ _db' = r.val
                  /\ constructions' = constructions + 1
    /\ entry' = "main"
    /\ UNCHANGED serverVars

\* main() made to start the server although init_db_from_env() raised.
main_uvicorn_run_AfterFailure ==
    /\ phase \in {"db_ready", "crashed"}
    /\ phase' = "serving"
    /\ UNCHANGED <<entry, _db, constructions>>
    /\ UNCHANGED serverVars

\* main(): uvicorn.run(app, ...) after init_db_from_env() returned.
main_uvicorn_run ==
    /\ phase = "db_ready"
    /\ phase' = "serving"
    /\ UNCHANGED <<entry, _db, constructions>>
    /\ UNCHANGED serverVars

\* The module's app object served by an ASGI server that imports the module:
\* main() runs only under __name__ == "__main__".
serve_app ==
    /\ phase = "start"
    /\ phase' = "serving"
    /\ entry' = "app"
    /\ UNCHANGED <<_db, constructions>>
    /\ UNCHANGED serverVars

(***************************************************************************)
(* The event loop: uvicorn runs every coroutine of the app on one loop.    *)
(* The two streams sse.connect_sse yields per connection are first-in      *)
(* first-out queues; server.py only passes them to mcp._mcp_server.run.    *)
(***************************************************************************)
LoopFree == running = 0

\* GET /mcp
StatusBody == <<"ok", "MCP BigQuery server is running.", "/mcp/sse">>
mcp_status ==
    /\ phase = "serving"
    /\ LoopFree
    /\ lastStatus' = StatusBody
    /\ UNCHANGED <<phase, entry, _db, constructions, sess, owner, readStream,
                   inflight, hstate, running, writeStream, delivered, last>>

\* GET /mcp/sse: handle_sse enters sse.connect_sse, which makes a new session
\* with its two streams, and starts the server's run loop on them.
handle_sse_connect(s) ==
    /\ phase = "serving"
    /\ LoopFree
    /\ sess[s] = "none"
    /\ \A t \in Sessions : t < s => sess[t] # "none"
    /\ sess' = [sess EXCEPT ![s] = "open"]
    /\ UNCHANGED <<phase, entry, _db, constructions, owner, readStream,
                   inflight, hstate, running, writeStream, delivered, last,
                   lastStatus>>

\* The id the next accepted request gets: ids follow the order of acceptance.
NextReqId == Cardinality({r \in ReqIds : owner[r] # 0}) + 1

\* POST /mcp/messages (sse.handle_post_message): a tool call addressed to an
\* open session is put on that session's read stream.
post_message(s) ==
    /\ phase = "serving"
    /\ LoopFree
    /\ sess[s] = "open"
    /\ NextReqId <= MaxReqs
    /\ \E req \in Requests(NextReqId, s) :
         readStream' = [readStream EXCEPT ![s] = Append(@, req)]
    /\ owner' = [owner EXCEPT ![NextReqId] = s]
    /\ hstate' = [hstate EXCEPT ![NextReqId] = "queued"]
    /\ UNCHANGED <<phase, entry, _db, constructions, sess, inflight, running,
                   writeStream, delivered, last, lastStatus>>

\* Delivery that drops the outcome of a tool call that raised.
Deliver_DropsError(req, t) ==
    writeStream' =
         IF ~t.raised /\ sess[req.session] = "open"
         THEN [writeStream EXCEPT ![req.session] = Append(@, req.id)]
         ELSE writeStream

\* The dispatcher's delivery of the outcome t of the tool call of req: one
\* Result for the request goes to its session's write stream, the text the
\* tool returned or, when an exception left the tool, the error Result the
\* dispatcher makes of it; nothing is written once the session is closed.
Deliver(req, t) ==
    writeStream' =
         IF sess[req.session] = "open"
         THEN [writeStream EXCEPT ![req.session] = Append(@, req.id)]
         ELSE writeStream

\* The end of the tool call of req with outcome t of CallTool, having met
\* backend error berr: the tool returned a text or an exception left it.
Finish(req, t, berr) ==
    /\ hstate' = [hstate EXCEPT ![req.id] = IF t.raised THEN "raised" ELSE "returned"]
    /\ last' = [id |-> req.id, tool |-> req.tool, arg |-> req.arg,
                raised |-> t.raised, type |-> t.type,
                text |-> IF t.raised THEN <<>> ELSE t.val,
                calls |-> t.calls, backendErr |-> berr]
    /\ Deliver(req, t)

\* mcp._mcp_server.run takes the next request of the session's read stream and
\* calls its tool: get_db(), then the database method up to its first backend
\* call, or to the end when it makes none.
tool_call(s) ==
    /\ phase = "serving"
    /\ LoopFree
    /\ sess[s] = "open"
    /\ readStream[s] # <<>>
    /\ LET req == Head(readStream[s])
       IN  /\ readStream' = [readStream EXCEPT ![s] = Tail(@)]
           /\ _db' = get_db_global(_db)
           /\ IF ReachesBackend(_db, req)
              THEN /\ hstate' = [hstate EXCEPT ![req.id] = "in_backend"]
                   /\ inflight' = inflight \cup {req}
                   /\ running' = IF HoldsLoopDuringBackend(req.tool)
                                 THEN req.id ELSE 0
                   /\ UNCHANGED <<writeStream, last>>
              ELSE /\ Finish(req, CallTool(_db, req,
                                   CHOOSE o \in Outcomes(req.tool) : TRUE), "")
                   /\ UNCHANGED <<running, inflight>>
    /\ UNCHANGED <<phase, entry, constructions, sess, owner, delivered,
                   lastStatus>>

\* The error the backend raised under outcome o of the tool's calls, "" if none.
BackendErrorOf(db, req, o) ==
    IF req.tool = "list_tables"
    THEN BigQueryDatabase_list_tables(db, o).type
    ELSE o.err

\* The backend answers (or fails) and the tool runs to its end.
backend_return(r) ==
    /\ phase = "serving"
    /\ \E req \in inflight :
         /\ req.id = r
         /\ \E o \in Outcomes(req.tool) :
              Finish(req, CallTool(_db, req, o), BackendErrorOf(_db, req, o))
         /\ inflight' = inflight \ {req}
    /\ running' = IF running = r THEN 0 ELSE running
    /\ UNCHANGED <<phase, entry, _db, constructions, sess, owner, readStream,
                   delivered, lastStatus>>

\* The session's SSE writer sends the next Result of the write stream.
sse_write(s) ==
    /\ phase = "serving"
    /\ LoopFree
    /\ sess[s] = "open"
    /\ writeStream[s] # <<>>
    /\ delivered' = [delivered EXCEPT ![s] = Append(@, Head(writeStream[s]))]
    /\ writeStream' = [writeStream EXCEPT ![s] = Tail(@)]
    /\ UNCHANGED <<phase, entry, _db, constructions, sess, owner, readStream,
                   inflight, hstate, running, last, lastStatus>>

\* The client disconnects: handle_sse leaves sse.connect_sse; what was still
\* queued on the connection's streams is dropped with them.
handle_sse_disconnect(s) ==
    /\ phase = "serving"
    /\ LoopFree
    /\ sess[s] = "open"
    /\ sess' = [sess EXCEPT ![s] = "closed"]
    /\ hstate' = [r \in ReqIds |->
                    IF \E i \in 1..Len(readStream[s]) : readStream[s][i].id = r
                    THEN "dropped" ELSE hstate[r]]
    /\ readStream' = [readStream EXCEPT ![s] = <<>>]
    /\ writeStream' = [writeStream EXCEPT ![s] = <<>>]
    /\ UNCHANGED <<phase, entry, _db, constructions, owner, inflight, running,
                   delivered, last, lastStatus>>

Next ==
    \/ main_init
    \/ main_uvicorn_run
    \/ serve_app
    \/ mcp_status
    \/ \E s \in Sessions : handle_sse_connect(s)
    \/ \E s \in Sessions : post_message(s)
    \/ \E s \in Sessions : tool_call(s)
    \/ \E r \in ReqIds : backend_return(r)
    \/ \E s \in Sessions : sse_write(s)
    \/ \E s \in Sessions : handle_sse_disconnect(s)

Spec == Init /\ [][Next]_vars


(***************************************************************************)
(* Properties                                                              *)
(***************************************************************************)
Count(seq, x) == Cardinality({i \in 1..Len(seq) : seq[i] = x})
Dots(name) == Count(name, ".")
NoRepeat(seq) == \A i, j \in 1..Len(seq) : seq[i] = seq[j] => i = j
IsFailure(text) == text # <<>> /\ text[1] = "Error: "

\* C1: every tool call, whatever the state of the backend handle and whatever
\* the backend does, ends by returning a Result: no exception leaves the tool.
C1_NoExceptionLeavesTool ==
    /\ \A r \in ReqIds : hstate[r] # "raised"
    /\ ~last.raised

\* C2: describe_table with a name that has no dot or more than one dot ends
\* with a failure naming the table, and issues no backend call.
C2_BadTableNameFails ==
    (last.tool = "describe_table" /\ Dots(last.arg) # 1)
        => /\ ~last.raised
           /\ last.text = <<"Error: ", "Invalid table name: ">> \o last.arg
           /\ last.calls = <<>>

\* C2, for a process whose backend handle is set (the handle is unset only
\* when the app is served without main()).
C2_BadTableNameFailsWithHandle ==
    (last.tool = "describe_table" /\ Dots(last.arg) # 1 /\ _db # NoneDb)
        => /\ ~last.raised
           /\ last.text = <<"Error: ", "Invalid table name: ">> \o last.arg
           /\ last.calls = <<>>

\* C3: on one session the Results are written in the order in which their
\* requests were accepted (request ids follow the order of acceptance).
C3_ResultsInAcceptanceOrder ==
    \A s \in Sessions :
        LET out == delivered[s] \o writeStream[s]
        IN  \A i, j \in 1..Len(out) : i < j => out[i] < out[j]

C3_Witness ==
    \E s \in Sessions :
        /\ Len(delivered[s]) >= 2
        /\ last.id = delivered[s][2]
        /\ last.calls # <<>>

\* C4: every request that reached a tool yields exactly one Result, which
\* is delivered exactly once: no Result is ever queued or written twice, and
\* once the tool call has ended, on a session that is still open and has
\* nothing left to write, exactly one Result of it has been written.
C4_ExactlyOneResultDelivered ==
    \A r \in ReqIds :
        /\ \A s \in Sessions :
               Count(delivered[s], r) + Count(writeStream[s], r) <= 1
        /\ (/\ hstate[r] \in {"returned", "raised"}
            /\ sess[owner[r]] = "open"
            /\ Count(writeStream[owner[r]], r) = 0)
               => Count(delivered[owner[r]], r) = 1

C4_Witness ==
    \E r \in ReqIds :
        /\ hstate[r] = "returned"
        /\ last.id = r
        /\ last.calls # <<>>
        /\ sess[owner[r]] = "open"
        /\ Count(delivered[owner[r]], r) = 1

\* C5: while the tool call of one session waits for the backend, a request
\* queued on another open session can be handed to its tool, and a Result
\* waiting on another open session can be written.
C5_OtherSessionsProgress ==
    \A a \in inflight : \A s \in Sessions \ {a.session} :
        sess[s] = "open" =>
            /\ readStream[s] # <<>> => ENABLED tool_call(s)
            /\ writeStream[s] # <<>> => ENABLED sse_write(s)

\* C7: a backend failure during a tool call is returned as "Error: <message>",
\* and no backend operation is issued twice in one call.
C7_BackendFailureReturnedOnce ==
    /\ NoRepeat(last.calls)
    /\ last.backendErr # "" =>
           /\ ~last.raised
           /\ last.text = <<"Error: ", last.backendErr>>

C7_Witness ==
    /\ last.backendErr # ""
    /\ IsFailure(last.text)
    /\ Len(last.calls) >= 1

C10_MainInitBeforeServe ==
    entry = "main" =>
        /\ phase \in {"db_ready", "serving"} => (_db # NoneDb /\ constructions = 1)
        /\ phase = "crashed" => (_db = NoneDb /\ constructions = 0)
        /\ phase # "serving" => (\A s \in Sessions : sess[s] = "none")
        /\ \A r \in ReqIds : hstate[r] # "raised"
        /\ last.type # "RuntimeError"

C10_Witness ==
    /\ entry = "main"
    /\ phase = "serving"
    /\ last.id # 0
    /\ ~last.raised

====
